---- MODULE Spec2Model ----
(***************************************************************************)
(* A model of the code cells of the two GPU notebooks of the repository:   *)
(* src/Week10.ipynb (TensorFlow GPU check and benchmark, the numba CUDA    *)
(* kernels add_kernel and thread_block_grid_demo, the CuPy timing cells)   *)
(* and src/unnamed/part_000 (the CuPy introduction notebook).              *)
(*                                                                         *)
(* Arrays are functions on 0..size-1, as Python indexes them.  A GPU       *)
(* thread is the pair <<blockIdx.x, threadIdx.x>>.                         *)
(***************************************************************************)
EXTENDS Integers, Sequences, FiniteSets, TLC

VARIABLES
    \* ---- numba kernel cells (Week10.ipynb, add_kernel and thread_block_grid_demo)
    kernel,             \* which kernel cell runs: "add" or "demo"
    n,                  \* n, the number of elements
    threads_per_block,  \* threads_per_block
    blocks_per_grid,    \* blocks_per_grid as the host code computes it (0: not yet)
    gridDim,            \* cuda.gridDim.x of the launch (0: nothing launched)
    hostpc,             \* the host statement that runs next
    x, y, out,          \* host arrays of the add_kernel cell
    output_array,       \* host array of the thread_block_grid_demo cell
    dev,                \* device memory: the device copies of the kernel's arguments
    threads,            \* thread -> [pc, pos, rx, ry]; empty before the launch
    accesses,           \* every array element access a thread has made
    stdout,             \* what the running cell has printed
    \* ---- TensorFlow cells (Week10.ipynb, GPU check cell and benchmark cell)
    cell,               \* which TensorFlow cell runs: "check" or "bench"
    tfpc,               \* the statement of the cell that runs next
    device_name,        \* device_name ("unset" before the assignment)
    raised,             \* the exception that ended the cell ("none": none)
    fnpc,               \* the statement of cpu() / gpu() that runs next ("none": no call)
    calls,              \* calls[f]: how often f was called, f in "cpu", "gpu"
    timed,              \* timed[m][f]: the calls of f made inside the measurement of m
    timer,              \* timeit: "off", "ready" (setup done), or the function it times
    loop,               \* timeit: the iterations of the running measurement so far
    measured,           \* the measurements that have finished, in order
    \* ---- timing cells (both notebooks): a host program and the GPU it launches work on
    tcell,              \* which timing cell runs
    tpos,               \* the index of the statement of its program that runs next
    pending,            \* GPU work launched and not yet complete
    timing,             \* TRUE once a start timestamp has been taken
    launched,           \* GPU work launched since the last start timestamp
    unsynced,           \* ... of which launched after the last return of synchronize
    ended,              \* the last end timestamp: [launched, unsynced, unfinished]
    \* ---- host/device copy cell (part_000)
    literal,            \* the nested list np.array is given
    cpc,                \* the statement of the cell that runs next
    A_cpu,              \* A_cpu
    A_gpu,              \* A_gpu
    \* ---- GPU memory cells (part_000): free_all_blocks, cp.ones, set_allocator
    mpc,                \* the statement of the memory cells that runs next
    alloc_size,         \* size of the memory cells (0: not assigned yet)
    devFree,            \* free device memory, KiB (mem_info[0])
    devTotal,           \* total device memory, KiB (mem_info[1])
    default_pool,       \* cp.get_default_memory_pool(): [allocator, cached]
    pool,               \* pool, the MemoryPool the notebook builds
    allocator,          \* the pool whose malloc is the current allocator
    A, B,               \* A, B: the device arrays cp.ones returns
    errors,             \* the exceptions that ended a cell: <<cell, exception>>
    \* ---- kernel fusion cell (part_000): squared_diff and fused_squared_diff
    fzpc,               \* the statement of the cell that runs next
    nloops,             \* the -n of the two %timeit lines
    run,                \* %timeit: the runs finished of the running measurement
    iter,               \* %timeit: the loops finished of the running run
    fcall,              \* the function being called ("none": no call)
    fstep,              \* the operations of its body evaluated so far
    tracing,            \* TRUE while cp.fuse traces the body of the function
    traced,             \* the operations the running trace has recorded
    fusion_cache,       \* fused function -> the operations of its compiled kernel
    fcalls,             \* fcalls[f]: the calls of f that have returned
    launches,           \* launches[f]: the kernels launched by calls of f (and by cp.arange)
    percall             \* the kernels launched by the running (or last) call

kvars == <<kernel, n, threads_per_block, blocks_per_grid, gridDim, hostpc,
           x, y, out, output_array, dev, threads, accesses>>

tfvars == <<cell, tfpc, device_name, raised, fnpc, calls, timed, timer, loop, measured>>

tmvars == <<tcell, tpos, pending, timing, launched, unsynced, ended>>

cpvars == <<literal, cpc, A_cpu, A_gpu>>

mmvars == <<mpc, alloc_size, devFree, devTotal, default_pool, pool, allocator, A, B, errors>>

fzvars == <<fzpc, nloops, run, iter, fcall, fstep, tracing, traced, fusion_cache,
            fcalls, launches, percall>>

vars == <<kvars, tfvars, tmvars, cpvars, mmvars, fzvars, stdout>>

\* what a kernel cell leaves alone
nonkernel == <<tfvars, tmvars, cpvars, mmvars, fzvars>>

\* what a TensorFlow cell leaves alone
nontf == <<kvars, tmvars, cpvars, mmvars, fzvars>>

\* what a timing cell leaves alone
nontiming == <<kvars, tfvars, cpvars, mmvars, fzvars, stdout>>

\* what the copy cell leaves alone
noncopy == <<kvars, tfvars, tmvars, mmvars, fzvars>>

\* what the memory cells leave alone
nonmemory == <<kvars, tfvars, tmvars, cpvars, fzvars>>

\* what the kernel fusion cell leaves alone
nonfuse == <<kvars, tfvars, tmvars, cpvars, mmvars, stdout>>

\* ---------------------------------------------------------------- bounds
MaxN == 3
MaxTpb == 2
MaxBlocks == 3

\* ------------------------------------------------------ helpers on arrays
Range(f) == {f[i] : i \in DOMAIN f}

EmptyArray == [i \in {} |-> 0]

\* np.arange(n).astype(np.float32): the values 0, 1, ..., n-1
Arange(m) == [i \in 0..(m - 1) |-> i]

\* np.zeros(n) and np.zeros_like(x)
Zeros(m) == [i \in 0..(m - 1) |-> 0]

\* 2 * x, element-wise
Twice(a) == [i \in DOMAIN a |-> 2 * a[i]]

\* a.size
Size(a) == Cardinality(DOMAIN a)

\* ------------------------------------------------- the thread hierarchy
\* math.ceil(n / threads_per_block): the true quotient, rounded up
MathCeilFloor(m, t) == m \div t

MathCeil(m, t) == IF m % t = 0 THEN m \div t ELSE (m \div t) + 1

\* (n + (threads_per_block - 1)) // threads_per_block
BlocksPerGridNoRound(m, t) == m \div t

BlocksPerGrid(m, t) == (m + (t - 1)) \div t

\* the blocks_per_grid statement of each cell
HostBlocks(k, m, t) == IF k = "add" THEN MathCeil(m, t) ELSE BlocksPerGrid(m, t)

\* pos = tx + ty * bw
FlatIndexNoWidth(tx, ty, bw) == tx + ty

FlatIndex(tx, ty, bw) == tx + ty * bw

\* if pos < out.size
InBoundsInclusive(p, size) == p <= size

InBounds(p, size) == p < size

\* tx + ty * 10 + bw * 100 + grid_size * 1000
DemoValueNoTen(tx, ty, bw, grid_size) == tx + ty + bw * 100 + grid_size * 1000

DemoValue(tx, ty, bw, grid_size) == tx + ty * 10 + bw * 100 + grid_size * 1000

\* the threads of a launch [grid, block]: blockIdx.x in 0..grid-1, threadIdx.x in 0..block-1
GridThreads(grid, block) == (0..(grid - 1)) \X (0..(block - 1))

BlockIdx(t) == t[1]

ThreadIdx(t) == t[2]

NewThread == [pc |-> "start", pos |-> 0, rx |-> 0, ry |-> 0]

\* ------------------------------------------------------- device memory
\* A load of element i.  Outside the array the behaviour is undefined: any value.
LoadResults(a, i) == IF i \in DOMAIN a THEN {a[i]} ELSE {0, 1}

\* A store of v to element i of array name.  Outside the array the behaviour is
\* undefined: the store may hit memory that holds none of the three arrays, or
\* any element of any of them.
StoreResults(mem, name, i, v) ==
    IF i \in DOMAIN mem[name]
    THEN {[mem EXCEPT ![name][i] = v]}
    ELSE {mem} \cup {[mem EXCEPT ![a][j] = v] :
                        a \in {"x", "y", "out"}, j \in DOMAIN mem["out"]}

Access(t, name, i, kind) == [thread |-> t, array |-> name, index |-> i, kind |-> kind]

\* ------------------------------------------------------------ host code
\* the order of the host statements of each cell
HostProgram(k) ==
    IF k = "add"
    THEN <<"alloc", "hierarchy", "launch", "wait", "print", "done">>
    ELSE <<"hierarchy", "print_grid", "alloc", "launch", "wait", "print", "done">>

NextPc(k, pc) ==
    LET prog == HostProgram(k)
        i == CHOOSE j \in 1..Len(prog) : prog[j] = pc
    IN  prog[i + 1]

\* a name that is not bound yet
Unbound == [type |-> "unbound", dtype |-> "none", shape |-> <<0, 0>>, data |-> <<>>]

\* a device array name that is not bound
NoArray == [pool |-> "none", nbytes |-> 0]

\* a MemoryPool that does not exist yet
NoPool == [allocator |-> "none", cached |-> 0]

\* the memory cells do not run
MemoryIdle ==
    /\ mpc = "none"
    /\ alloc_size = 0
    /\ devFree = 0
    /\ devTotal = 0
    /\ default_pool = NoPool
    /\ pool = NoPool
    /\ allocator = "none"
    /\ A = NoArray
    /\ B = NoArray
    /\ errors = <<>>

Functions == {"squared_diff", "fused_squared_diff"}

\* what launches kernels in the kernel fusion cell: the two functions and cp.arange
Launchers == Functions \cup {"arange"}

\* the kernel fusion cell does not run
FuseIdle ==
    /\ fzpc = "none"
    /\ nloops = 0
    /\ run = 0
    /\ iter = 0
    /\ fcall = "none"
    /\ fstep = 0
    /\ tracing = FALSE
    /\ traced = <<>>
    /\ fusion_cache = <<>>
    /\ fcalls = [f \in Functions |-> 0]
    /\ launches = [f \in Launchers |-> 0]
    /\ percall = 0

\* the copy cell does not run
CopyIdle ==
    /\ literal = <<>>
    /\ cpc = "none"
    /\ A_cpu = Unbound
    /\ A_gpu = Unbound

\* no end timestamp taken yet
NotEnded == [launched |-> 0, unsynced |-> 0, unfinished |-> 0, taken |-> FALSE]

\* no timing cell runs
TimingIdle ==
    /\ tcell = "none"
    /\ tpos = 0
    /\ pending = 0
    /\ timing = FALSE
    /\ launched = 0
    /\ unsynced = 0
    /\ ended = NotEnded

\* no TensorFlow cell runs
TfIdle ==
    /\ cell = "none"
    /\ tfpc = "none"
    /\ device_name = "unset"
    /\ raised = "none"
    /\ fnpc = "none"
    /\ calls = [f \in {"cpu", "gpu"} |-> 0]
    /\ timed = [m \in {"cpu", "gpu"} |-> [f \in {"cpu", "gpu"} |-> 0]]
    /\ timer = "off"
    /\ loop = 0
    /\ measured = <<>>

KernelInit ==
    /\ TfIdle
    /\ CopyIdle
    /\ MemoryIdle
    /\ FuseIdle
    /\ TimingIdle
    /\ kernel \in {"add", "demo"}
    /\ n \in 1..MaxN
    /\ threads_per_block \in 1..MaxTpb
    /\ blocks_per_grid = 0
    /\ gridDim = 0
    /\ hostpc = HostProgram(kernel)[1]
    /\ x = EmptyArray
    /\ y = EmptyArray
    /\ out = EmptyArray
    /\ output_array = EmptyArray
    /\ dev = [x |-> EmptyArray, y |-> EmptyArray, out |-> EmptyArray]
    /\ threads = [t \in {} |-> NewThread]
    /\ accesses = {}
    /\ stdout = <<>>

\* x = np.arange(n); y = 2 * x; out = np.zeros_like(x)   (add_kernel cell)
\* output_array = np.zeros(n)                            (demo cell)
HostArrays ==
    /\ hostpc = "alloc"
    /\ UNCHANGED nonkernel
    /\ IF kernel = "add"
       THEN /\ x' = Arange(n)
            /\ y' = Twice(Arange(n))
            /\ out' = Zeros(n)
            /\ UNCHANGED output_array
       ELSE /\ output_array' = Zeros(n)
            /\ UNCHANGED <<x, y, out>>
    /\ hostpc' = NextPc(kernel, hostpc)
    /\ UNCHANGED <<kernel, n, threads_per_block, blocks_per_grid, gridDim,
                   dev, threads, accesses, stdout>>

\* blocks_per_grid = math.ceil(n / threads_per_block)                   (add)
\* blocks_per_grid = (n + (threads_per_block - 1)) // threads_per_block  (demo)
HostGrid ==
    /\ hostpc = "hierarchy"
    /\ UNCHANGED nonkernel
    /\ blocks_per_grid' = HostBlocks(kernel, n, threads_per_block)
    /\ hostpc' = NextPc(kernel, hostpc)
    /\ UNCHANGED <<kernel, n, threads_per_block, gridDim, x, y, out, output_array,
                   dev, threads, accesses, stdout>>

\* print(blocks_per_grid)   (demo cell)
PrintGrid ==
    /\ hostpc = "print_grid"
    /\ UNCHANGED nonkernel
    /\ stdout' = Append(stdout, blocks_per_grid)
    /\ hostpc' = NextPc(kernel, hostpc)
    /\ UNCHANGED <<kernel, n, threads_per_block, blocks_per_grid, gridDim,
                   x, y, out, output_array, dev, threads, accesses>>

\* The launch kernel[grid, threads_per_block](host arrays): numba copies every host
\* array argument to the device and starts grid * threads_per_block threads.
StartKernel(grid) ==
    /\ hostpc = "launch"
    /\ UNCHANGED nonkernel
    /\ gridDim' = grid
    /\ dev' = IF kernel = "add"
              THEN [x |-> x, y |-> y, out |-> out]
              ELSE [x |-> EmptyArray, y |-> EmptyArray, out |-> output_array]
    /\ threads' = [t \in GridThreads(grid, threads_per_block) |-> NewThread]
    /\ hostpc' = NextPc(kernel, hostpc)
    /\ UNCHANGED <<kernel, n, threads_per_block, blocks_per_grid,
                   x, y, out, output_array, accesses, stdout>>

\* add_kernel[blocks_per_grid, threads_per_block](x, y, out)
\* thread_block_grid_demo[blocks_per_grid, threads_per_block](output_array)
Launch == StartKernel(blocks_per_grid)

\* the same kernels launched with any other grid size
LaunchAny == \E grid \in (1..MaxBlocks) \ {blocks_per_grid} : StartKernel(grid)

\* -------------------------------------------------------- kernel threads
\* tx, ty, bw (and grid_size); pos = tx + ty * bw; if pos < out.size
ThreadStart(t) ==
    /\ hostpc = "wait"
    /\ UNCHANGED nonkernel
    /\ t \in DOMAIN threads
    /\ threads[t].pc = "start"
    /\ LET p == FlatIndex(ThreadIdx(t), BlockIdx(t), threads_per_block)
           to == IF InBounds(p, Size(dev["out"]))
                 THEN (IF kernel = "add" THEN "load_x" ELSE "store")
                 ELSE "done"
       IN  threads' = [threads EXCEPT ![t] = [@ EXCEPT !.pc = to, !.pos = p]]
    /\ UNCHANGED <<kernel, n, threads_per_block, blocks_per_grid, gridDim, hostpc,
                   x, y, out, output_array, dev, accesses, stdout>>

\* the load of x[pos] in out[pos] = x[pos] + y[pos]
ThreadLoadX(t) ==
    /\ hostpc = "wait"
    /\ UNCHANGED nonkernel
    /\ t \in DOMAIN threads
    /\ threads[t].pc = "load_x"
    /\ \E v \in LoadResults(dev["x"], threads[t].pos) :
          threads' = [threads EXCEPT ![t] = [@ EXCEPT !.pc = "load_y", !.rx = v]]
    /\ accesses' = accesses \cup {Access(t, "x", threads[t].pos, "read")}
    /\ UNCHANGED <<kernel, n, threads_per_block, blocks_per_grid, gridDim, hostpc,
                   x, y, out, output_array, dev, stdout>>

\* the load of y[pos] in out[pos] = x[pos] + y[pos]
ThreadLoadY(t) ==
    /\ hostpc = "wait"
    /\ UNCHANGED nonkernel
    /\ t \in DOMAIN threads
    /\ threads[t].pc = "load_y"
    /\ \E v \in LoadResults(dev["y"], threads[t].pos) :
          threads' = [threads EXCEPT ![t] = [@ EXCEPT !.pc = "store", !.ry = v]]
    /\ accesses' = accesses \cup {Access(t, "y", threads[t].pos, "read")}
    /\ UNCHANGED <<kernel, n, threads_per_block, blocks_per_grid, gridDim, hostpc,
                   x, y, out, output_array, dev, stdout>>

\* the value a thread stores
\* add_kernel: x[pos] + y[pos];  demo: tx + ty * 10 + bw * 100 + grid_size * 1000
StoredValue(t) ==
    IF kernel = "add"
    THEN threads[t].rx + threads[t].ry
    ELSE DemoValue(ThreadIdx(t), BlockIdx(t), threads_per_block, gridDim)

\* out[pos] = ...   /   output[pos] = ...
ThreadStore(t) ==
    /\ hostpc = "wait"
    /\ UNCHANGED nonkernel
    /\ t \in DOMAIN threads
    /\ threads[t].pc = "store"
    /\ dev' \in StoreResults(dev, "out", threads[t].pos, StoredValue(t))
    /\ threads' = [threads EXCEPT ![t] = [@ EXCEPT !.pc = "done"]]
    /\ accesses' = accesses \cup {Access(t, "out", threads[t].pos, "write")}
    /\ UNCHANGED <<kernel, n, threads_per_block, blocks_per_grid, gridDim, hostpc,
                   x, y, out, output_array, stdout>>

\* the kernel has finished: every thread has returned
KernelFinishedEarly == TRUE

KernelFinished == \A t \in DOMAIN threads : threads[t].pc = "done"

\* The launch returns: numba waits for the kernel and copies every array argument
\* back to its host array.
LaunchReturn ==
    /\ hostpc = "wait"
    /\ UNCHANGED nonkernel
    /\ KernelFinished
    /\ IF kernel = "add"
       THEN /\ x' = dev["x"]
            /\ y' = dev["y"]
            /\ out' = dev["out"]
            /\ UNCHANGED output_array
       ELSE /\ output_array' = dev["out"]
            /\ UNCHANGED <<x, y, out>>
    /\ hostpc' = NextPc(kernel, hostpc)
    /\ UNCHANGED <<kernel, n, threads_per_block, blocks_per_grid, gridDim,
                   dev, threads, accesses, stdout>>

\* print(out)   /   print(output_array)
PrintResult ==
    /\ hostpc = "print"
    /\ UNCHANGED nonkernel
    /\ stdout' = Append(stdout, IF kernel = "add" THEN out ELSE output_array)
    /\ hostpc' = NextPc(kernel, hostpc)
    /\ UNCHANGED <<kernel, n, threads_per_block, blocks_per_grid, gridDim,
                   x, y, out, output_array, dev, threads, accesses>>

Init == KernelInit

Next ==
    \/ HostArrays
    \/ HostGrid
    \/ PrintGrid
    \/ Launch
    \/ LaunchAny
    \/ \E t \in DOMAIN threads : ThreadStart(t)
    \/ \E t \in DOMAIN threads : ThreadLoadX(t)
    \/ \E t \in DOMAIN threads : ThreadLoadY(t)
    \/ \E t \in DOMAIN threads : ThreadStore(t)
    \/ LaunchReturn
    \/ PrintResult

Spec == Init /\ [][Next]_vars

\* ------------------------------------------------- properties of a launch
Indices == 0..(n - 1)

Launched == gridDim > 0

EveryThreadReturned == \A t \in DOMAIN threads : threads[t].pc = "done"

HostAfterLaunch == hostpc \in {"print", "done"}

\* the threads that have written element i
Writers(i) == {a.thread : a \in {b \in accesses : b.kind = "write" /\ b.index = i}}

\* the threads that have computed their pos
Placed == {t \in DOMAIN threads : threads[t].pc # "start"}

\* b is the smallest integer with b * t >= m
IsLeastCover(b, m, t) == b * t >= m /\ \A c \in 0..(b - 1) : c * t < m

\* C1: add_kernel launched with blocks_per_grid = ceil(n / threads_per_block)
\* blocks ends, whatever the interleaving of its threads, with
\* out[i] = x[i] + y[i] (= 3 i) for every i in 0..n-1; until then a step is enabled.
AddKernelComputesSum ==
    (kernel = "add" /\ gridDim \in {0, blocks_per_grid}) =>
        /\ hostpc # "done" => ENABLED Next
        /\ HostAfterLaunch =>
              /\ DOMAIN out = Indices
              /\ \A i \in Indices : out[i] = x[i] + y[i] /\ out[i] = 3 * i
        /\ hostpc = "done" => stdout[Len(stdout)] = [i \in Indices |-> 3 * i]

AddKernelDone ==
    /\ kernel = "add"
    /\ hostpc = "done"
    /\ gridDim = blocks_per_grid
    /\ n = MaxN
    /\ gridDim * threads_per_block > n
    /\ out[n - 1] = 3 * (n - 1)

\* C2: in both kernels, for any grid and block width, every array access is at an
\* index below the array's size, and a thread whose pos is >= the size makes no
\* array access at all.
NoOutOfBoundsAccess ==
    /\ \A a \in accesses : a.index >= 0 /\ a.index < Size(dev[a.array])
    /\ \A t \in Placed :
          threads[t].pos >= Size(dev["out"]) =>
              /\ threads[t].pc = "done"
              /\ \A a \in accesses : a.thread # t

SurplusThreadReturned ==
    /\ hostpc = "done"
    /\ accesses # {}
    /\ \E t \in DOMAIN threads : threads[t].pos >= n /\ threads[t].pc = "done"

\* C3: two distinct threads of a launch never compute the same pos, so every element
\* is written by at most one thread, and by exactly one thread once the kernel has
\* finished when gridDim * blockDim >= n.
OneWriterPerElement ==
    /\ \A t1, t2 \in Placed : t1 # t2 => threads[t1].pos # threads[t2].pos
    /\ \A i \in Indices : Cardinality(Writers(i)) <= 1
    /\ (Launched /\ EveryThreadReturned /\ gridDim * threads_per_block >= n) =>
          \A i \in Indices : Cardinality(Writers(i)) = 1

EveryElementWritten ==
    /\ hostpc = "done"
    /\ gridDim > 1
    /\ threads_per_block > 1
    /\ \A i \in Indices : Cardinality(Writers(i)) = 1

\* C4: blocks_per_grid = (n + (threads_per_block - 1)) // threads_per_block is the
\* smallest b with b * threads_per_block >= n; it is 12 for n = 60 and
\* threads_per_block = 5, and it is the value the cell prints.
BlocksPerGridRoundsUp ==
    /\ (kernel = "demo" /\ hostpc # "hierarchy") =>
          /\ IsLeastCover(blocks_per_grid, n, threads_per_block)
          /\ (hostpc # "print_grid" => stdout[1] = blocks_per_grid)
    /\ (kernel = "demo" /\ hostpc = "hierarchy") =>
          BlocksPerGrid(60, 5) = 12

RoundedUpGrid ==
    /\ kernel = "demo"
    /\ hostpc = "alloc"
    /\ n % threads_per_block # 0
    /\ blocks_per_grid * threads_per_block > n
    /\ stdout = <<blocks_per_grid>>

\* C5: when print(output_array) runs, every thread of thread_block_grid_demo has
\* finished and the host array holds exactly what the threads wrote on the device;
\* what is printed is the completely written array.
HostSeesFinishedKernel ==
    (kernel = "demo" /\ HostAfterLaunch) =>
        /\ EveryThreadReturned
        /\ output_array = dev["out"]
        /\ \A i \in Indices :
              /\ Writers(i) = {} => output_array[i] = 0
              /\ \A t \in Writers(i) :
                    output_array[i] = DemoValue(ThreadIdx(t), BlockIdx(t),
                                                threads_per_block, gridDim)
        /\ hostpc = "done" => stdout[Len(stdout)] = dev["out"]

DemoPrinted ==
    /\ kernel = "demo"
    /\ hostpc = "done"
    /\ n > 1
    /\ \A i \in Indices : output_array[i] # 0
    /\ stdout[Len(stdout)] = output_array

\* ------------------------------------- the notebook's launch of the demo kernel
\* n = 60
NotebookN == 60

\* threads_per_block = 5
NotebookTpb == 5

\* The thread_block_grid_demo cell as the notebook runs it.
NotebookInit ==
    /\ TfIdle
    /\ CopyIdle
    /\ MemoryIdle
    /\ FuseIdle
    /\ TimingIdle
    /\ kernel = "demo"
    /\ n = NotebookN
    /\ threads_per_block = NotebookTpb
    /\ blocks_per_grid = 0
    /\ gridDim = 0
    /\ hostpc = HostProgram(kernel)[1]
    /\ x = EmptyArray
    /\ y = EmptyArray
    /\ out = EmptyArray
    /\ output_array = EmptyArray
    /\ dev = [x |-> EmptyArray, y |-> EmptyArray, out |-> EmptyArray]
    /\ threads = [t \in {} |-> NewThread]
    /\ accesses = {}
    /\ stdout = <<>>

\* One schedule of the 12 blocks: the device runs them in the order of blockIdx.x,
\* the threads of the running block in any interleaving.
BlockTurn(t) ==
    \A u \in DOMAIN threads : BlockIdx(u) < BlockIdx(t) => threads[u].pc = "done"

NotebookNext ==
    \/ HostGrid
    \/ PrintGrid
    \/ HostArrays
    \/ Launch
    \/ \E t \in DOMAIN threads : BlockTurn(t) /\ ThreadStart(t)
    \/ \E t \in DOMAIN threads : BlockTurn(t) /\ ThreadStore(t)
    \/ LaunchReturn
    \/ PrintResult

SpecNotebook == NotebookInit /\ [][NotebookNext]_vars

\* C6: in the notebook's launch (n = 60, threads_per_block = 5, 12 blocks) every
\* thread writes a different value: after the launch the 60 elements of
\* output_array are pairwise distinct.
DemoValuesDistinct ==
    HostAfterLaunch =>
        /\ gridDim = 12
        /\ DOMAIN output_array = 0..59
        /\ \A i, j \in DOMAIN output_array :
              i # j => output_array[i] # output_array[j]
        /\ \A t1, t2 \in DOMAIN threads :
              t1 # t2 => output_array[threads[t1].pos] # output_array[threads[t2].pos]

NotebookDemoPrinted ==
    /\ hostpc = "done"
    /\ Cardinality(DOMAIN threads) = 60
    /\ output_array[0] = 12500
    /\ output_array[59] = 12614
    /\ stdout = <<12, output_array>>

\* ----------------------------------------------------- TensorFlow cells
\* what tf.test.gpu_device_name() may return: the name of a GPU device, or ""
DeviceNames == {"", "/device:GPU:0", "/device:GPU:1"}

\* number=10 of both timeit.timeit calls
TimeitNumber == 10

\* if device_name != '/device:GPU:0'
GpuMissingOnlyEmpty(name) == name = ""

GpuMissing(name) == name # "/device:GPU:0"

\* the loop of timeit: for _ in range(number)
LoopFinishedEarly(i, number) == i + 1 >= number

LoopFinished(i, number) == i >= number

\* the statements that follow a passed GPU test, in order
TfProgram(c) ==
    IF c = "check"
    THEN <<"found", "done">>
    ELSE <<"defs", "warm_cpu", "warm_gpu", "print_header", "print_cpu_label",
           "timeit_cpu", "print_cpu_time", "print_gpu_label", "timeit_gpu",
           "print_gpu_time", "print_speedup", "done">>

TfNextPc(c, pc) ==
    LET prog == TfProgram(c)
        i == CHOOSE j \in 1..Len(prog) : prog[j] = pc
    IN  prog[i + 1]

\* the function a warm-up or timeit statement calls
Callee(pc) == IF pc \in {"warm_cpu", "timeit_cpu"} THEN "cpu" ELSE "gpu"

\* the statements of cpu() and of gpu(): with tf.device(...), tf.random.normal,
\* Conv2D, return tf.math.reduce_sum
FnBody == <<"device", "random", "conv", "sum">>

\* what each print statement of the benchmark cell writes: <<text, value printed>>
Printed(pc) ==
    CASE pc = "print_header" -> <<"Time (s) to convolve ... Sum of ten runs.", "">>
      [] pc = "print_cpu_label" -> <<"CPU (s):", "">>
      [] pc = "print_cpu_time" -> <<"", "cpu_time">>
      [] pc = "print_gpu_label" -> <<"GPU (s):", "">>
      [] pc = "print_gpu_time" -> <<"", "gpu_time">>
      [] pc = "print_speedup" -> <<"GPU speedup over CPU: ", "int(cpu_time/gpu_time)">>

DiagMessage ==
    <<"This error most likely means that this notebook is not configured to use a GPU.", "">>

FoundMessage(name) == <<"Found GPU at: ", name>>

\* no kernel cell runs
KernelIdle ==
    /\ kernel = "none"
    /\ n = 0
    /\ threads_per_block = 0
    /\ blocks_per_grid = 0
    /\ gridDim = 0
    /\ hostpc = "none"
    /\ x = EmptyArray
    /\ y = EmptyArray
    /\ out = EmptyArray
    /\ output_array = EmptyArray
    /\ dev = [x |-> EmptyArray, y |-> EmptyArray, out |-> EmptyArray]
    /\ threads = [t \in {} |-> NewThread]
    /\ accesses = {}

TfInit ==
    /\ KernelIdle
    /\ CopyIdle
    /\ MemoryIdle
    /\ FuseIdle
    /\ TimingIdle
    /\ cell \in {"check", "bench"}
    /\ tfpc = "get_device"
    /\ device_name = "unset"
    /\ raised = "none"
    /\ fnpc = "none"
    /\ calls = [f \in {"cpu", "gpu"} |-> 0]
    /\ timed = [m \in {"cpu", "gpu"} |-> [f \in {"cpu", "gpu"} |-> 0]]
    /\ timer = "off"
    /\ loop = 0
    /\ measured = <<>>
    /\ stdout = <<>>

\* device_name = tf.test.gpu_device_name()
TfGetDevice ==
    /\ tfpc = "get_device"
    /\ device_name' \in DeviceNames
    /\ tfpc' = "test"
    /\ UNCHANGED <<cell, raised, fnpc, calls, timed, timer, loop, measured, stdout, nontf>>

\* if device_name != '/device:GPU:0':
TfTest ==
    /\ tfpc = "test"
    /\ tfpc' = IF GpuMissing(device_name)
               THEN (IF cell = "bench" THEN "diag" ELSE "raise")
               ELSE TfProgram(cell)[1]
    /\ UNCHANGED <<cell, device_name, raised, fnpc, calls, timed, timer, loop,
                   measured, stdout, nontf>>

\* print('\n\nThis error most likely means ...')   (benchmark cell)
TfPrintDiag ==
    /\ tfpc = "diag"
    /\ stdout' = Append(stdout, DiagMessage)
    /\ tfpc' = "raise"
    /\ UNCHANGED <<cell, device_name, raised, fnpc, calls, timed, timer, loop,
                   measured, nontf>>

\* raise SystemError('GPU device not found'): the cell ends here
TfRaise ==
    /\ tfpc = "raise"
    /\ raised' = "SystemError: GPU device not found"
    /\ tfpc' = "stopped"
    /\ UNCHANGED <<cell, device_name, fnpc, calls, timed, timer, loop, measured,
                   stdout, nontf>>

\* print('Found GPU at: {}'.format(device_name))   (check cell)
TfPrintFound ==
    /\ tfpc = "found"
    /\ stdout' = Append(stdout, FoundMessage(device_name))
    /\ tfpc' = TfNextPc(cell, tfpc)
    /\ UNCHANGED <<cell, device_name, raised, fnpc, calls, timed, timer, loop,
                   measured, nontf>>

\* def cpu(): ...   def gpu(): ...
TfDefs ==
    /\ tfpc = "defs"
    /\ tfpc' = TfNextPc(cell, tfpc)
    /\ UNCHANGED <<cell, device_name, raised, fnpc, calls, timed, timer, loop,
                   measured, stdout, nontf>>

\* f is called: its body starts; the call is inside the measurement that runs, if any
EnterFn(f) ==
    /\ fnpc = "none"
    /\ fnpc' = FnBody[1]
    /\ calls' = [calls EXCEPT ![f] = @ + 1]
    /\ timed' = IF timer \in {"cpu", "gpu"}
                THEN [timed EXCEPT ![timer][f] = @ + 1]
                ELSE timed

\* cpu() and gpu(), each run once to warm up
TfWarmUp ==
    /\ tfpc \in {"warm_cpu", "warm_gpu"}
    /\ EnterFn(Callee(tfpc))
    /\ UNCHANGED <<cell, tfpc, device_name, raised, timer, loop, measured, stdout, nontf>>

\* one statement of the body of cpu() or gpu()
FnStep ==
    /\ fnpc \in {"device", "random", "conv"}
    /\ fnpc' = FnBody[(CHOOSE j \in 1..Len(FnBody) : FnBody[j] = fnpc) + 1]
    /\ UNCHANGED <<cell, tfpc, device_name, raised, calls, timed, timer, loop,
                   measured, stdout, nontf>>

\* return tf.math.reduce_sum(...): back in the statement that called
FnReturn ==
    /\ fnpc = "sum"
    /\ fnpc' = "none"
    /\ IF tfpc \in {"warm_cpu", "warm_gpu"}
       THEN tfpc' = TfNextPc(cell, tfpc) /\ UNCHANGED loop
       ELSE loop' = loop + 1 /\ UNCHANGED tfpc
    /\ UNCHANGED <<cell, device_name, raised, calls, timed, timer, measured, stdout, nontf>>

\* the print statements of the benchmark cell
TfPrint ==
    /\ tfpc \in {"print_header", "print_cpu_label", "print_cpu_time",
                 "print_gpu_label", "print_gpu_time", "print_speedup"}
    /\ stdout' = Append(stdout, Printed(tfpc))
    /\ tfpc' = TfNextPc(cell, tfpc)
    /\ UNCHANGED <<cell, device_name, raised, fnpc, calls, timed, timer, loop,
                   measured, nontf>>

\* timeit.timeit(..., setup="from __main__ import cpu"): the setup statement
TimeitSetup ==
    /\ tfpc \in {"timeit_cpu", "timeit_gpu"}
    /\ timer = "off"
    /\ timer' = "ready"
    /\ UNCHANGED <<cell, tfpc, device_name, raised, fnpc, calls, timed, loop,
                   measured, stdout, nontf>>

\* timeit takes the start time
TimeitStart ==
    /\ tfpc \in {"timeit_cpu", "timeit_gpu"}
    /\ timer = "ready"
    /\ timer' = Callee(tfpc)
    /\ loop' = 0
    /\ UNCHANGED <<cell, tfpc, device_name, raised, fnpc, calls, timed, measured,
                   stdout, nontf>>

\* one iteration of timeit's loop: the statement 'cpu()' or 'gpu()'
TimeitCall ==
    /\ tfpc \in {"timeit_cpu", "timeit_gpu"}
    /\ timer \in {"cpu", "gpu"}
    /\ ~LoopFinished(loop, TimeitNumber)
    /\ EnterFn(Callee(tfpc))
    /\ UNCHANGED <<cell, tfpc, device_name, raised, timer, loop, measured, stdout, nontf>>

\* timeit takes the end time and returns the elapsed time: cpu_time, gpu_time
TimeitStop ==
    /\ tfpc \in {"timeit_cpu", "timeit_gpu"}
    /\ timer \in {"cpu", "gpu"}
    /\ fnpc = "none"
    /\ LoopFinished(loop, TimeitNumber)
    /\ timer' = "off"
    /\ measured' = Append(measured, timer)
    /\ tfpc' = TfNextPc(cell, tfpc)
    /\ UNCHANGED <<cell, device_name, raised, fnpc, calls, timed, loop, stdout, nontf>>

TfNext ==
    \/ TfGetDevice
    \/ TfTest
    \/ TfPrintDiag
    \/ TfRaise
    \/ TfPrintFound
    \/ TfDefs
    \/ TfWarmUp
    \/ FnStep
    \/ FnReturn
    \/ TfPrint
    \/ TimeitSetup
    \/ TimeitStart
    \/ TimeitCall
    \/ TimeitStop

SpecTf == TfInit /\ [][TfNext]_vars

\* ------------------------------------------- properties of the TensorFlow cells
\* the calls of f made outside every measurement
WarmUpCalls(f) == calls[f] - timed["cpu"][f] - timed["gpu"][f]

\* C7: in both GPU check cells, when device_name is not '/device:GPU:0',
\* SystemError('GPU device not found') is raised and no later statement runs:
\* 'Found GPU at' is never printed; in the benchmark cell the diagnostic message
\* is printed before the raise, and cpu(), gpu() and the timing prints never run.
NoGpuStopsCell ==
    (device_name \notin {"unset", "/device:GPU:0"}) =>
        /\ tfpc \in {"test", "diag", "raise", "stopped"}
        /\ tfpc # "stopped" => ENABLED TfNext
        /\ FoundMessage(device_name) \notin Range(stdout)
        /\ Range(stdout) \subseteq {DiagMessage}
        /\ calls["cpu"] = 0 /\ calls["gpu"] = 0 /\ fnpc = "none"
        /\ timer = "off" /\ measured = <<>>
        /\ raised # "none" =>
              /\ raised = "SystemError: GPU device not found"
              /\ tfpc = "stopped"
              /\ stdout = IF cell = "bench" THEN <<DiagMessage>> ELSE <<>>
        /\ tfpc = "stopped" => raised # "none"

BenchStoppedWithoutGpu ==
    /\ cell = "bench"
    /\ device_name = "/device:GPU:1"
    /\ tfpc = "stopped"
    /\ raised = "SystemError: GPU device not found"
    /\ stdout = <<DiagMessage>>

\* C9: in the benchmark cell cpu() and gpu() are each called exactly once as
\* warm-up before any timed call, then exactly 10 times each inside their own
\* measurement; the CPU measurement finishes before the GPU measurement starts;
\* each runs 11 times in total and no warm-up call is inside a timed interval.
WarmUpThenTenTimedCalls ==
    cell = "bench" =>
        /\ \A f \in {"cpu", "gpu"} : WarmUpCalls(f) \in {0, 1}
        /\ tfpc \in {"warm_cpu", "warm_gpu"} => timer = "off" /\ measured = <<>>
        /\ (timer # "off" \/ measured # <<>>) =>
              WarmUpCalls("cpu") = 1 /\ WarmUpCalls("gpu") = 1
        /\ timed["cpu"]["gpu"] = 0 /\ timed["gpu"]["cpu"] = 0
        /\ \A f \in {"cpu", "gpu"} :
              /\ timed[f][f] <= TimeitNumber
              /\ timed[f][f] > 0 => timer = f \/ f \in Range(measured)
              /\ f \in Range(measured) => timed[f][f] = TimeitNumber
        /\ (timer = "gpu" \/ tfpc = "timeit_gpu") => measured = <<"cpu">>
        /\ timed["gpu"]["gpu"] > 0 => "cpu" \in Range(measured)
        /\ measured \in {<<>>, <<"cpu">>, <<"cpu", "gpu">>}
        /\ tfpc = "done" =>
              /\ measured = <<"cpu", "gpu">>
              /\ calls["cpu"] = TimeitNumber + 1
              /\ calls["gpu"] = TimeitNumber + 1
              /\ calls["cpu"] = 11 /\ calls["gpu"] = 11

BenchFinished ==
    /\ cell = "bench"
    /\ tfpc = "done"
    /\ calls["cpu"] = 11
    /\ calls["gpu"] = 11
    /\ timed["gpu"]["gpu"] = 10

\* ------------------------------------------------------------ timing cells
\* A timing cell is a host program over five kinds of statement:
\*   "start"   a start timestamp (time.time(), perf_counter(), the start of a timeit run)
\*   "stop"    an end timestamp
\*   "launch"  a statement that launches GPU work and returns without waiting for it
\*   "host"    a statement that runs on the CPU only
\*   "sync"    synchronize() of the device or of the null stream
RECURSIVE Repeat(_, _)
Repeat(prog, k) == IF k = 0 THEN <<>> ELSE prog \o Repeat(prog, k - 1)

\* the runs a %timeit takes ("7 runs" in the recorded outputs)
TimeitRuns == 7

\* %timeit -n loops stmt: each run times loops executions of stmt
TimeitMagic(stmt, loops) == Repeat(<<"start">> \o Repeat(stmt, loops) \o <<"stop">>, TimeitRuns)

\* gpu(): tf.random.normal, Conv2D and reduce_sum placed on /device:GPU:0
TfGpuCall == <<"launch", "launch", "launch">>

\* cpu(): the same three operations placed on /cpu:0
TfCpuCall == <<"host", "host", "host">>

TimingCells ==
    {"w10_elementwise", "w10_matmul", "w10_tf_benchmark", "qr_timeit", "matmul",
     "det_loop", "qr_sizes", "fuse_timeit", "dot", "dot_exercise", "dot_solution"}

Program(c) ==
    CASE c = "w10_elementwise" ->
           \* x_gpu, y_gpu = cp.random.rand; z_gpu = x_gpu + y_gpu + x_gpu*x_gpu
           <<"launch", "launch", "start", "launch", "launch", "launch", "sync",
             "stop", "host">>
      [] c = "w10_matmul" ->
           <<"launch", "launch", "start", "launch", "sync", "stop", "host">>
      [] c = "w10_tf_benchmark" ->
           TfCpuCall \o TfGpuCall \o <<"host", "host">>
           \o <<"start">> \o Repeat(TfCpuCall, TimeitNumber) \o <<"stop", "host", "host">>
           \o <<"start">> \o Repeat(TfGpuCall, TimeitNumber) \o <<"stop", "host", "host">>
      [] c = "qr_timeit" ->
           <<"launch", "launch">> \o TimeitMagic(<<"launch", "sync">>, 5)
      [] c = "matmul" ->
           <<"start", "host", "host", "host", "stop", "host">>
           \o <<"launch", "launch", "launch", "start", "launch", "sync", "stop", "host">>
      [] c = "det_loop" ->
           Repeat(<<"launch", "start", "launch", "sync", "stop", "host">>, 5)
      [] c = "qr_sizes" ->
           \* for size in [64, ..., 2048]: for xp in [np, cp]
           Repeat(<<"host">>
                  \o <<"host", "host", "start", "host", "sync", "stop", "host">>
                  \o <<"launch", "launch", "start", "launch", "sync", "stop", "host">>, 6)
      [] c = "fuse_timeit" ->
           <<"launch", "launch">>
           \o TimeitMagic(<<"launch", "launch", "launch", "sync">>, 10)
           \o TimeitMagic(<<"launch", "sync">>, 10)
      [] c = "dot" ->
           Repeat(<<"host", "start", "host", "host", "host", "stop", "host",
                    "start", "launch", "launch", "launch", "sync", "stop",
                    "host", "host", "host">>, 3)
      [] c = "dot_exercise" ->
           \* the cell with ">>>Insert CuPy code here": nothing between start and stop
           Repeat(<<"host", "start", "host", "host", "start", "stop",
                    "host", "host", "host">>, 3)
      [] c = "dot_solution" ->
           Repeat(<<"host", "start", "host", "host", "launch", "launch", "launch",
                    "sync", "stop", "host", "host", "host">>, 3)

\* the statement that runs next ("end": the cell is over)
Statement == IF tpos \in 1..Len(Program(tcell)) THEN Program(tcell)[tpos] ELSE "end"

Min(a, b) == IF a <= b THEN a ELSE b

TimingInit ==
    /\ KernelIdle
    /\ CopyIdle
    /\ MemoryIdle
    /\ FuseIdle
    /\ TfIdle
    /\ stdout = <<>>
    /\ tcell \in TimingCells
    /\ tpos = 1
    /\ pending = 0
    /\ timing = FALSE
    /\ launched = 0
    /\ unsynced = 0
    /\ ended = NotEnded

\* start_time = time.time() / perf_counter(): a new timed interval begins
ExecStart ==
    /\ Statement = "start"
    /\ tpos' = tpos + 1
    /\ timing' = TRUE
    /\ launched' = 0
    /\ unsynced' = 0
    /\ UNCHANGED <<tcell, pending, ended, nontiming>>

\* a CuPy or TensorFlow GPU operation: the work is queued on the device, the call returns
ExecLaunch ==
    /\ Statement = "launch"
    /\ tpos' = tpos + 1
    /\ pending' = pending + 1
    /\ launched' = IF timing THEN launched + 1 ELSE launched
    /\ unsynced' = IF timing THEN unsynced + 1 ELSE unsynced
    /\ UNCHANGED <<tcell, timing, ended, nontiming>>

\* a NumPy operation, a print, an assignment
ExecHost ==
    /\ Statement = "host"
    /\ tpos' = tpos + 1
    /\ UNCHANGED <<tcell, pending, timing, launched, unsynced, ended, nontiming>>

\* the device has finished all the work queued on it
DeviceIdle == pending = 0

\* synchronize(): returns once the device has finished all queued work
ExecSync ==
    /\ Statement = "sync"
    /\ DeviceIdle
    /\ tpos' = tpos + 1
    /\ unsynced' = 0
    /\ UNCHANGED <<tcell, pending, timing, launched, ended, nontiming>>

\* end_time = time.time() / perf_counter(): the timed interval ends
ExecStop ==
    /\ Statement = "stop"
    /\ tpos' = tpos + 1
    /\ timing' = FALSE
    /\ ended' = [launched |-> launched, unsynced |-> unsynced,
                 unfinished |-> Min(pending, launched), taken |-> TRUE]
    /\ UNCHANGED <<tcell, pending, launched, unsynced, nontiming>>

\* the device completes the oldest queued work, at its own pace
GpuComplete ==
    /\ pending > 0
    /\ pending' = pending - 1
    /\ UNCHANGED <<tcell, tpos, timing, launched, unsynced, ended, nontiming>>

TimingNext ==
    \/ ExecStart
    \/ ExecLaunch
    \/ ExecHost
    \/ ExecSync
    \/ ExecStop
    \/ GpuComplete

SpecTiming == TimingInit /\ [][TimingNext]_vars

\* ------------------------------------------------ properties of the timing cells
\* the last end timestamp closed an interval that launched GPU work
GpuIntervalEnded == ended.taken /\ ended.launched > 0

\* the statement that ran last
LastStatement == IF tpos > 1 THEN Program(tcell)[tpos - 1] ELSE "none"

\* C8: in every GPU timing measurement of both notebooks the end timestamp is
\* taken only after synchronize has returned, and synchronize returns only after
\* all GPU work launched since the start timestamp has completed; the return of
\* the asynchronous launch alone never ends the timed interval.
EndTimestampAfterSynchronize ==
    /\ GpuIntervalEnded => ended.unsynced = 0 /\ ended.unfinished = 0
    /\ LastStatement = "sync" => pending = 0 /\ unsynced = 0

\* the same, of the CuPy measurements alone
CupyEndTimestampAfterSynchronize ==
    tcell # "w10_tf_benchmark" => EndTimestampAfterSynchronize

\* --------------------------------------------------- host/device copy cell
MaxCols == 2
MaxElem == 1

\* [[1, 2, 3], [4, 5, 6]]
NotebookLiteral == <<<<1, 2, 3>>, <<4, 5, 6>>>>

\* the nested lists the cell is run on: the notebook's, and every list of two rows
\* of up to MaxCols elements in -MaxElem..MaxElem
Literals ==
    {NotebookLiteral} \cup
    UNION {[1..2 -> [1..c -> (0 - MaxElem)..MaxElem]] : c \in 1..MaxCols}

\* np.array(list, np.int32): an array in host memory.  The elements of this model
\* and their squares are far inside the 32 bits of int32, so none wraps.
NpArray(list) ==
    [type |-> "numpy.ndarray", dtype |-> "int32",
     shape |-> <<Len(list), Len(list[1])>>,
     data |-> [r \in 1..Len(list) |-> [c \in 1..Len(list[1]) |-> list[r][c]]]]

\* cp.asarray(a): the array copied to device memory
CpAsarray(a) == [a EXCEPT !.type = "cupy.ndarray"]

\* one element of cp.square, in the array's dtype
SquareElementCubed(v) == v * v * v

SquareElement(v) == v * v

\* cp.square(a): element-wise, on the device; a cupy.ndarray of the same shape
CpSquare(a) ==
    [a EXCEPT !.data = [r \in DOMAIN a.data |->
                           [c \in DOMAIN a.data[r] |-> SquareElement(a.data[r][c])]]]

\* cp.asnumpy(a): the array copied to host memory
CpAsnumpy(a) == [a EXCEPT !.type = "numpy.ndarray"]

\* where an array's data resides
Memory(a) ==
    CASE a.type = "numpy.ndarray" -> "host"
      [] a.type = "cupy.ndarray" -> "device"
      [] OTHER -> "none"

CopyProgram ==
    <<"np_array", "print_type", "print_values", "asarray", "print_gpu_type",
      "square", "asnumpy", "print_squared", "done">>

CopyNextPc(pc) == CopyProgram[(CHOOSE j \in 1..Len(CopyProgram) : CopyProgram[j] = pc) + 1]

CopyInit ==
    /\ KernelIdle
    /\ TfIdle
    /\ TimingIdle
    /\ MemoryIdle
    /\ FuseIdle
    /\ stdout = <<>>
    /\ literal \in Literals
    /\ cpc = CopyProgram[1]
    /\ A_cpu = Unbound
    /\ A_gpu = Unbound

\* A_cpu = np.array([[1, 2, 3], [4, 5, 6]], np.int32)
CopyNpArray ==
    /\ cpc = "np_array"
    /\ A_cpu' = NpArray(literal)
    /\ cpc' = CopyNextPc(cpc)
    /\ UNCHANGED <<literal, A_gpu, stdout, noncopy>>

\* print("A_cpu is a", type(A_cpu))
\* print("With initial values:\n", A_cpu)
\* print("A_gpu is a", type(A_gpu))
\* print("Squared values:\n", A_cpu)
CopyPrint ==
    /\ cpc \in {"print_type", "print_values", "print_gpu_type", "print_squared"}
    /\ stdout' = Append(stdout,
                    CASE cpc = "print_type" -> <<"A_cpu is a", A_cpu.type>>
                      [] cpc = "print_values" -> <<"With initial values:", A_cpu.data>>
                      [] cpc = "print_gpu_type" -> <<"A_gpu is a", A_gpu.type>>
                      [] cpc = "print_squared" -> <<"Squared values:", A_cpu.data>>)
    /\ cpc' = CopyNextPc(cpc)
    /\ UNCHANGED <<literal, A_cpu, A_gpu, noncopy>>

\* A_gpu = cp.asarray(A_cpu)
CopyToDevice ==
    /\ cpc = "asarray"
    /\ A_gpu' = CpAsarray(A_cpu)
    /\ cpc' = CopyNextPc(cpc)
    /\ UNCHANGED <<literal, A_cpu, stdout, noncopy>>

\* A_gpu = cp.square(A_gpu)
CopySquare ==
    /\ cpc = "square"
    /\ A_gpu.type = "cupy.ndarray"
    /\ A_gpu' = CpSquare(A_gpu)
    /\ cpc' = CopyNextPc(cpc)
    /\ UNCHANGED <<literal, A_cpu, stdout, noncopy>>

\* A_cpu = cp.asnumpy(A_gpu)
CopyToHost ==
    /\ cpc = "asnumpy"
    /\ A_cpu' = CpAsnumpy(A_gpu)
    /\ cpc' = CopyNextPc(cpc)
    /\ UNCHANGED <<literal, A_gpu, stdout, noncopy>>

CopyNext ==
    \/ CopyNpArray
    \/ CopyPrint
    \/ CopyToDevice
    \/ CopySquare
    \/ CopyToHost

SpecCopy == CopyInit /\ [][CopyNext]_vars

\* C10: cp.asarray, cp.square, cp.asnumpy give a host (numpy) array of the same
\* shape whose every element is the square of the original element
\* ([[1,2,3],[4,5,6]] becomes [[1,4,9],[16,25,36]]); between the two copies A_gpu
\* is a device (cupy) array.
RoundTripSquares ==
    /\ cpc \in {"print_gpu_type", "square", "asnumpy"} =>
          /\ A_gpu.type = "cupy.ndarray"
          /\ Memory(A_gpu) = "device"
          /\ A_gpu.shape = <<Len(literal), Len(literal[1])>>
    /\ cpc \in {"print_squared", "done"} =>
          /\ A_cpu.type = "numpy.ndarray"
          /\ Memory(A_cpu) = "host"
          /\ A_cpu.shape = <<Len(literal), Len(literal[1])>>
          /\ DOMAIN A_cpu.data = DOMAIN literal
          /\ \A r \in DOMAIN literal :
                /\ DOMAIN A_cpu.data[r] = DOMAIN literal[r]
                /\ \A c \in DOMAIN literal[r] :
                      A_cpu.data[r][c] = literal[r][c] * literal[r][c]
          /\ literal = NotebookLiteral =>
                A_cpu.data = <<<<1, 4, 9>>, <<16, 25, 36>>>>
    /\ cpc = "done" =>
          /\ stdout[3] = <<"A_gpu is a", "cupy.ndarray">>
          /\ stdout[4] = <<"Squared values:", A_cpu.data>>

NotebookArraySquared ==
    /\ cpc = "done"
    /\ literal = NotebookLiteral
    /\ A_cpu.data = <<<<1, 4, 9>>, <<16, 25, 36>>>>
    /\ A_cpu.type = "numpy.ndarray"
    /\ A_gpu.type = "cupy.ndarray"

\* ------------------------------------------------------------ GPU memory cells
\* Memory is counted in KiB.  A MemoryPool is [allocator, cached]: the function
\* that gets memory for it and the memory it holds for reuse.  A device array
\* is [pool, nbytes]: the pool its memory came from and how much it is.
MaxSide == 2
MaxFreeKiB == 20
MaxCachedKiB == 2

\* size = 32768
AllocSize == 32768

\* cp.ones makes float64 arrays: 8 bytes an element
ItemSize == 8

KiB == 1024

\* mem_info as the notebook recorded it, before and after free_all_blocks
RecordedFreeBefore == 3930176
RecordedFreeAfter == 5384256
RecordedTotal == 49837824

\* the values of size: the notebook's, and small ones
Sizes == {16 * k : k \in 1..MaxSide} \cup {AllocSize}

\* the memory of a (s, s) float64 array, KiB
Nbytes(s) == (s * s) \div (KiB \div ItemSize)

\* the statements of the memory cells, in order
MemoryProgram ==
    <<"free_all_blocks", "print_mem_info", "size1", "A1", "B1",
      "pool", "set_allocator", "size2", "A2", "B2", "done">>

MemoryNextPc(pc) ==
    MemoryProgram[(CHOOSE j \in 1..Len(MemoryProgram) : MemoryProgram[j] = pc) + 1]

\* the cell a statement is in
CellOf(pc) ==
    CASE pc \in {"free_all_blocks", "print_mem_info"} -> "free"
      [] pc \in {"size1", "A1", "B1"} -> "alloc"
      [] pc \in {"pool", "set_allocator"} -> "unified"
      [] pc \in {"size2", "A2", "B2"} -> "retry"
      [] OTHER -> "none"

\* an exception ends the cell: the first statement of the next cell runs next
NextCell(pc) == IF CellOf(pc) = "alloc" THEN "pool" ELSE "done"

\* the name a cp.ones statement binds
Target(pc) == IF pc \in {"A1", "A2"} THEN "A" ELSE "B"

\* cp.cuda.malloc: device memory, or none when the device has less free
CudaMalloc(req, free) ==
    [ok |-> req <= free, free |-> IF req <= free THEN free - req ELSE free]

\* cp.cuda.malloc_managed: unified memory; its pages are not bound to the device
MallocManaged(req, free) == [ok |-> TRUE, free |-> free]

DeviceAllocate(kind, req, free) ==
    IF kind = "malloc_managed" THEN MallocManaged(req, free) ELSE CudaMalloc(req, free)

\* MemoryPool.malloc: memory the pool holds if it has enough, else memory from
\* its allocator, a second time after freeing all its blocks when that fails
PoolMalloc(p, req, free) ==
    IF p.cached >= req
    THEN [ok |-> TRUE, pool |-> [p EXCEPT !.cached = @ - req], free |-> free]
    ELSE LET first == DeviceAllocate(p.allocator, req, free)
             again == DeviceAllocate(p.allocator, req, free + p.cached)
         IN  IF first.ok
             THEN [ok |-> TRUE, pool |-> p, free |-> first.free]
             ELSE [ok |-> again.ok, pool |-> [p EXCEPT !.cached = 0], free |-> again.free]

\* the pool whose malloc cp.ones calls
CurrentPool == IF allocator = "pool" THEN pool ELSE default_pool

\* a dropped array gives its memory back to the pool it came from
Release(name, p, array) ==
    IF array.pool = name THEN [p EXCEPT !.cached = @ + array.nbytes] ELSE p

\* MemoryPool() as a slip would build it: on the device allocator
DevicePool == [allocator |-> "malloc", cached |-> 0]

\* pool = cp.cuda.MemoryPool(cp.cuda.malloc_managed)
ManagedPool == [allocator |-> "malloc_managed", cached |-> 0]

MemoryInit ==
    /\ KernelIdle
    /\ TfIdle
    /\ TimingIdle
    /\ CopyIdle
    /\ FuseIdle
    /\ stdout = <<>>
    /\ mpc = MemoryProgram[1]
    /\ alloc_size = 0
    /\ \/ /\ devTotal = MaxFreeKiB + MaxCachedKiB
          /\ devFree \in 0..MaxFreeKiB
          /\ \E c \in 0..MaxCachedKiB : default_pool = [allocator |-> "malloc", cached |-> c]
       \/ /\ devTotal = RecordedTotal
          /\ devFree = RecordedFreeBefore
          /\ default_pool = [allocator |-> "malloc",
                             cached |-> RecordedFreeAfter - RecordedFreeBefore]
    /\ pool = NoPool
    /\ allocator = "default_pool"
    /\ A = NoArray
    /\ B = NoArray
    /\ errors = <<>>

\* cp.get_default_memory_pool().free_all_blocks()
MemFreeAllBlocks ==
    /\ mpc = "free_all_blocks"
    /\ mpc' = MemoryNextPc(mpc)
    /\ devFree' = devFree + default_pool.cached
    /\ default_pool' = [default_pool EXCEPT !.cached = 0]
    /\ UNCHANGED <<alloc_size, devTotal, pool, allocator, A, B, errors, stdout, nonmemory>>

\* print("GPU (free, total) memory in bytes:"); print(cp.cuda.Device().mem_info)
MemPrintInfo ==
    /\ mpc = "print_mem_info"
    /\ mpc' = MemoryNextPc(mpc)
    /\ stdout' = stdout \o <<<<"GPU (free, total) memory in bytes:", <<devFree, devTotal>>>>>>
    /\ UNCHANGED <<alloc_size, devFree, devTotal, default_pool, pool, allocator, A, B,
                   errors, nonmemory>>

\* size = 32768, the same literal in both cells
MemAssignSize ==
    /\ mpc \in {"size1", "size2"}
    /\ mpc' = MemoryNextPc(mpc)
    /\ IF mpc = "size1" THEN alloc_size' \in Sizes ELSE alloc_size' = alloc_size
    /\ UNCHANGED <<devFree, devTotal, default_pool, pool, allocator, A, B, errors,
                   stdout, nonmemory>>

\* A = cp.ones((size, size)) / B = cp.ones((size, size)): the allocation succeeds
MemOnes(name) ==
    /\ mpc \in {"A1", "B1", "A2", "B2"}
    /\ Target(mpc) = name
    /\ LET got == PoolMalloc(CurrentPool, Nbytes(alloc_size), devFree)
           old == IF name = "A" THEN A ELSE B
           new == [pool |-> allocator, nbytes |-> Nbytes(alloc_size)]
       IN  /\ got.ok
           /\ devFree' = got.free
           /\ default_pool' = Release("default_pool",
                                      IF allocator = "default_pool" THEN got.pool
                                      ELSE default_pool, old)
           /\ pool' = Release("pool", IF allocator = "pool" THEN got.pool ELSE pool, old)
           /\ A' = IF name = "A" THEN new ELSE A
           /\ B' = IF name = "B" THEN new ELSE B
    /\ mpc' = MemoryNextPc(mpc)
    /\ UNCHANGED <<alloc_size, devTotal, allocator, errors, stdout, nonmemory>>

\* the same statements when the allocator has no memory to give:
\* cp.ones raises OutOfMemoryError and the cell ends
MemOutOfMemory(name) ==
    /\ mpc \in {"A1", "B1", "A2", "B2"}
    /\ Target(mpc) = name
    /\ LET got == PoolMalloc(CurrentPool, Nbytes(alloc_size), devFree)
       IN  /\ ~got.ok
           /\ devFree' = got.free
           /\ default_pool' = IF allocator = "default_pool" THEN got.pool ELSE default_pool
           /\ pool' = IF allocator = "pool" THEN got.pool ELSE pool
    /\ errors' = Append(errors, <<CellOf(mpc), "OutOfMemoryError">>)
    /\ mpc' = NextCell(mpc)
    /\ UNCHANGED <<alloc_size, devTotal, allocator, A, B, stdout, nonmemory>>

\* pool = cp.cuda.MemoryPool(cp.cuda.malloc_managed)
MemNewPool ==
    /\ mpc = "pool"
    /\ mpc' = MemoryNextPc(mpc)
    /\ pool' = ManagedPool
    /\ UNCHANGED <<alloc_size, devFree, devTotal, default_pool, allocator, A, B, errors,
                   stdout, nonmemory>>

\* cp.cuda.set_allocator(pool.malloc)
MemSetAllocator ==
    /\ mpc = "set_allocator"
    /\ mpc' = MemoryNextPc(mpc)
    /\ allocator' = "pool"
    /\ UNCHANGED <<alloc_size, devFree, devTotal, default_pool, pool, A, B, errors,
                   stdout, nonmemory>>

MemoryNext ==
    \/ MemFreeAllBlocks
    \/ MemPrintInfo
    \/ MemAssignSize
    \/ MemOnes("A")
    \/ MemOnes("B")
    \/ MemOutOfMemory("A")
    \/ MemOutOfMemory("B")
    \/ MemNewPool
    \/ MemSetAllocator

SpecMemory == MemoryInit /\ [][MemoryNext]_vars

\* ----------------------------------------------- properties of the memory cells
\* the cell ended in an out-of-memory error
OutOfMemory(c) == \E i \in DOMAIN errors : errors[i] = <<c, "OutOfMemoryError">>

\* the free device memory print(cp.cuda.Device().mem_info) showed
PrintedFree == stdout[Len(stdout)][2][1]

MaxLoops == 2

\* %timeit -n 10
TimeitLoops == 10

\* the values of -n: the notebook's, and small ones
LoopCounts == 1..MaxLoops \cup {TimeitLoops}

\* return (x - y) * (x - y): the operators in the order Python evaluates them
Body == <<"subtract", "subtract", "multiply">>

\* the cell without the decorator
FusedNever(f) == FALSE

\* @cp.fuse
Fused(f) == f = "fused_squared_diff"

FuseProgram ==
    <<"def_squared_diff", "def_fused_squared_diff", "size", "x", "y",
      "timeit_squared_diff", "timeit_fused_squared_diff", "del_x", "del_y", "done">>

FuseNextPc(pc) ==
    FuseProgram[(CHOOSE j \in 1..Len(FuseProgram) : FuseProgram[j] = pc) + 1]

\* the function a %timeit line calls
Timed(pc) == IF pc = "timeit_squared_diff" THEN "squared_diff" ELSE "fused_squared_diff"

FuseInit ==
    /\ KernelIdle
    /\ TfIdle
    /\ TimingIdle
    /\ CopyIdle
    /\ MemoryIdle
    /\ stdout = <<>>
    /\ fzpc = FuseProgram[1]
    /\ nloops \in LoopCounts
    /\ run = 0
    /\ iter = 0
    /\ fcall = "none"
    /\ fstep = 0
    /\ tracing = FALSE
    /\ traced = <<>>
    /\ fusion_cache = <<>>
    /\ fcalls = [f \in Functions |-> 0]
    /\ launches = [f \in Launchers |-> 0]
    /\ percall = 0

\* def squared_diff / @cp.fuse def fused_squared_diff, size = 10000, del x, del y
FzHost ==
    /\ fzpc \in {"def_squared_diff", "def_fused_squared_diff", "size", "del_x", "del_y"}
    /\ fzpc' = FuseNextPc(fzpc)
    /\ UNCHANGED <<nloops, run, iter, fcall, fstep, tracing, traced, fusion_cache,
                   fcalls, launches, percall, nonfuse>>

\* x = cp.arange(size) / y = cp.arange(size)[::-1]: one kernel fills the array
FzArange ==
    /\ fzpc \in {"x", "y"}
    /\ fzpc' = FuseNextPc(fzpc)
    /\ launches' = [launches EXCEPT !["arange"] = @ + 1]
    /\ UNCHANGED <<nloops, run, iter, fcall, fstep, tracing, traced, fusion_cache,
                   fcalls, percall, nonfuse>>

\* %timeit calls the function; a fused function not compiled yet is traced first
FzCall ==
    /\ fzpc \in {"timeit_squared_diff", "timeit_fused_squared_diff"}
    /\ fcall = "none"
    /\ fcall' = Timed(fzpc)
    /\ fstep' = 0
    /\ percall' = 0
    /\ tracing' = (Fused(Timed(fzpc)) /\ fusion_cache = <<>>)
    /\ UNCHANGED <<fzpc, nloops, run, iter, traced, fusion_cache, fcalls, launches, nonfuse>>

\* x - y or ... * ... on cupy arrays: the operator launches its kernel
FzOperator ==
    /\ fcall \in Functions
    /\ ~Fused(fcall)
    /\ fstep < Len(Body)
    /\ fstep' = fstep + 1
    /\ launches' = [launches EXCEPT ![fcall] = @ + 1]
    /\ percall' = percall + 1
    /\ UNCHANGED <<fzpc, nloops, run, iter, fcall, tracing, traced, fusion_cache,
                   fcalls, nonfuse>>

\* the same operators while cp.fuse traces the body: recorded, nothing launched
FzTraceOperator ==
    /\ fcall \in Functions
    /\ tracing
    /\ fstep < Len(Body)
    /\ fstep' = fstep + 1
    /\ traced' = Append(traced, Body[fstep + 1])
    /\ UNCHANGED <<fzpc, nloops, run, iter, fcall, tracing, fusion_cache, fcalls,
                   launches, percall, nonfuse>>

\* the trace is over: the recorded operators become one kernel, kept for later calls
FzCompile ==
    /\ fcall \in Functions
    /\ tracing
    /\ fstep = Len(Body)
    /\ tracing' = FALSE
    /\ fusion_cache' = <<traced>>
    /\ traced' = <<>>
    /\ fstep' = 0
    /\ UNCHANGED <<fzpc, nloops, run, iter, fcall, fcalls, launches, percall, nonfuse>>

\* the fused function launches its compiled kernel
FzFusedLaunch ==
    /\ fcall \in Functions
    /\ Fused(fcall)
    /\ ~tracing
    /\ fusion_cache # <<>>
    /\ fstep = 0
    /\ fstep' = Len(fusion_cache[1])
    /\ launches' = [launches EXCEPT ![fcall] = @ + 1]
    /\ percall' = percall + 1
    /\ UNCHANGED <<fzpc, nloops, run, iter, fcall, tracing, traced, fusion_cache,
                   fcalls, nonfuse>>

\* return
FzReturn ==
    /\ fcall \in Functions
    /\ ~tracing
    /\ fstep = Len(Body)
    /\ fcalls' = [fcalls EXCEPT ![fcall] = @ + 1]
    /\ fcall' = "synchronize"
    /\ UNCHANGED <<fzpc, nloops, run, iter, fstep, tracing, traced, fusion_cache,
                   launches, percall, nonfuse>>

\* cp.cuda.Device().synchronize(): the loop of the run is over; after -n loops
\* the run is, and after the last run the %timeit line
FzSynchronize ==
    /\ fcall = "synchronize"
    /\ fcall' = "none"
    /\ IF iter + 1 < nloops
       THEN iter' = iter + 1 /\ UNCHANGED <<run, fzpc>>
       ELSE /\ iter' = 0
            /\ IF run + 1 < TimeitRuns
               THEN run' = run + 1 /\ UNCHANGED fzpc
               ELSE run' = 0 /\ fzpc' = FuseNextPc(fzpc)
    /\ UNCHANGED <<nloops, fstep, tracing, traced, fusion_cache, fcalls, launches,
                   percall, nonfuse>>

FuseNext ==
    \/ FzHost
    \/ FzArange
    \/ FzCall
    \/ FzOperator
    \/ FzTraceOperator
    \/ FzCompile
    \/ FzFusedLaunch
    \/ FzReturn
    \/ FzSynchronize

SpecFuse == FuseInit /\ [][FuseNext]_vars

\* ------------------------------------------ properties of the kernel fusion cell
\* no call is running
BetweenCalls == fcall \in {"none", "synchronize"}

\* C12: one call of fused_squared_diff launches a single combined kernel (of the
\* two subtractions and the multiplication), one call of squared_diff launches
\* one kernel per operation, three; so over any number of calls the fused
\* function has launched as many kernels as it was called, the unfused one three
\* times as many, and the fused one never more than the unfused one.
FusedLaunchesOneKernel ==
    /\ fusion_cache \in {<<>>, <<Body>>}
    /\ fcall = "synchronize" =>
          percall = IF Timed(fzpc) = "fused_squared_diff" THEN 1 ELSE Len(Body)
    /\ BetweenCalls =>
          /\ launches["fused_squared_diff"] = fcalls["fused_squared_diff"]
          /\ launches["squared_diff"] = 3 * fcalls["squared_diff"]
    /\ fcalls["fused_squared_diff"] <= fcalls["squared_diff"] =>
          launches["fused_squared_diff"] <= launches["squared_diff"]

\* the notebook's cell is over: 7 runs of 10 loops of each function
FuseCellFinished ==
    /\ fzpc = "done"
    /\ nloops = TimeitLoops
    /\ fcalls["squared_diff"] = TimeitRuns * TimeitLoops
    /\ fcalls["fused_squared_diff"] = TimeitRuns * TimeitLoops
    /\ launches["squared_diff"] = 3 * TimeitRuns * TimeitLoops
    /\ launches["fused_squared_diff"] = TimeitRuns * TimeitLoops

====
